---- MODULE Spec2Model ----
(***************************************************************************)
(* Genetic evaluation job orchestration of the sheep breeding backend:     *)
(*   api/v1/breeding_values.py  (submission, background executor, readers) *)
(*   services/julia_service.py  (the engine bridge)                        *)
(*   api/v1/gwas.py             (a second caller of the engine bridge)     *)
(* and the services beside it, each under a specification of its own:      *)
(*   security.py                (RateLimiter)                              *)
(*   services/rbac_service.py   (role table and permission cache)          *)
(*   services/base.py           (BaseService: soft delete and restore)     *)
(*   services/farm_service.py   (AnimalLocationService)                    *)
(*                                                                         *)
(* Real numbers are scaled by 100 (ebv 2.45 is 245, reliability 0.75 is    *)
(* 75).  The persisted state is the two tables runs and results; a state   *)
(* of the model shows what a reader of the database sees, i.e. committed   *)
(* data only.  Uncommitted objects of a session live in the task record.   *)
(***************************************************************************)
EXTENDS Integers, Sequences, FiniteSets, Bags, TLC

(* ------------------------------ bounds -------------------------------- *)
MaxJobs == 2
MaxGwasCalls == 2
\* wall-clock budget of one engine invocation, in ticks, and how far the
\* model lets the clock of one invocation run
TimeoutBudget == 1
MaxElapsed == TimeoutBudget + 1
\* largest skip and limit a read request carries
MaxSkip == 1
MaxLimit == 2
\* rate limiter: requests allowed per window, window length and the last
\* reading of the clock, in ticks
MaxRequests == 2
WindowSeconds == 2
MaxClock == 4
\* records a BaseService table gets and the last reading of its clock
MaxRecords == 2
MaxStoreClock == 1
\* location records the table animal_locations gets
MaxLocations == 3

(* ----------------------------- constants ------------------------------ *)
NULL == -1
\* BreedingValueResultModel(accuracy=0.7, percentile_rank=80.0 / 0.0)
Accuracy == 70
FallbackPercentile == 8000
DefaultReliability == 50
NAnimalsWritten == 10

\* methods a submission may carry (run_data.method is any string): one with
\* a branch of its own in the executor, one of the enumeration without such a
\* branch, and one outside the enumeration
Methods == {"GBLUP", "BayesA", "Kriging"}

\* settings.JULIA_NUM_THREADS and settings.GPU_ENABLED (defaults of config.py)
JULIA_NUM_THREADS == 8
GPU_ENABLED == TRUE

\* BreedingValueRunCreate: the requests a client submits, one per method: the
\* defaults (num_threads 4, no GPU), the example of the schema (8, GPU), and
\* a third
RunCreate(m) ==
    CASE m = "GBLUP"  -> [method |-> m, num_threads |-> 4, use_gpu |-> FALSE]
      [] m = "BayesA" -> [method |-> m, num_threads |-> 8, use_gpu |-> TRUE]
      [] OTHER        -> [method |-> m, num_threads |-> 2, use_gpu |-> FALSE]
\* the supported methods: the list in the docstring of
\* create_breeding_value_run and, from the specification, GWAS and DeepGBLUP
SupportedMethods ==
    {"BLUP", "GBLUP", "ssGBLUP", "BayesA", "BayesB", "BayesC", "BayesR",
     "GWAS", "DeepGBLUP"}

\* animal_ids of the growth records with a body weight, in query order
PhenoSamples == {<< >>, <<101, 102>>, <<101, 101>>}

(* ----------------------- engine output documents ---------------------- *)
\* texts the engine process may leave at the output path:
\*   docA        {"ebvs": {"101": 2.45}, "reliabilities": {"101": 0.75}}
\*   docEmpty    {}
\*   docBadKey   {"ebvs": {"102": -0.3, "x7": 0.1}, "reliabilities": {"101": 0.75}}
\*   docEbvsZero {"ebvs": 0}
\*   docArray    []
\*   garbage     text json.load rejects
ObjectDocs == {"docA", "docEmpty", "docBadKey", "docEbvsZero"}
FileContents == ObjectDocs \cup {"docArray", "garbage"}

\* result.get("ebvs", {}) as the ordered items of the map
DocEbvs(d) ==
    CASE d = "docA"      -> << <<"101", 245>> >>
      [] d = "docBadKey" -> << <<"102", -30>>, <<"x7", 10>> >>
      [] OTHER           -> << >>

\* result.get("reliabilities", {})
DocReliabilities(d) ==
    CASE d \in {"docA", "docBadKey"} -> ("101" :> 75)
      [] OTHER -> << >>

\* int(anim_id): defined on decimal strings only
IntParsable(k) == k \in {"101", "102"}
IntOf(k) == CASE k = "101" -> 101 [] k = "102" -> 102

VARIABLES
    runs,               \* table breeding_value_runs, index = id
    results,            \* table breeding_value_results, a bag of rows
    tasks,              \* background tasks added by submissions
    calls,              \* activations of JuliaService._execute_julia_script:
                        \*   calls[t] is the one of task t, the ones above
                        \*   MaxJobs belong to requests of gwas.py
    fs,                 \* temporary directory: name -> 0 (no such file),
                        \*   -c (input document of call c), c (output
                        \*   document written by the engine of call c)
    gwasInitialized,    \* initialized of the module level service of gwas.py
    freshInitialized,   \* initialized of a service right after JuliaService()
    reader,             \* the last read request of the job API and its response
    limiter,             \* the module level RateLimiter of security.py
    rbac,                \* ROLE_PERMISSIONS and the cache of the RBACService
    store,               \* a table behind a BaseService, its clock and the last call
    farm                \* table animal_locations, the barns' counts and the last call

\* the state of the services beside the job core
serviceVars == <<reader, limiter, rbac, store, farm>>

\* the state of the job core
jobVars == <<runs, results, tasks, calls, fs, gwasInitialized, freshInitialized>>

vars == <<runs, results, tasks, calls, fs, gwasInitialized, freshInitialized,
          serviceVars>>

CallIds == 1 .. (MaxJobs + MaxGwasCalls)
GwasCallIds == (MaxJobs + 1) .. (MaxJobs + MaxGwasCalls)
TmpNames == 1 .. 2 * (MaxJobs + MaxGwasCalls)

\* no engine process: no environment
NoEnv == [JULIA_NUM_THREADS |-> 0, CUDA_VISIBLE_DEVICES |-> FALSE]

\* lines 254-260: the environment of the engine process; CUDA_VISIBLE_DEVICES
\* is TRUE when the variable is set by the bridge
ProcessEnv ==
    [JULIA_NUM_THREADS |-> JULIA_NUM_THREADS,
     CUDA_VISIBLE_DEVICES |-> GPU_ENABLED]

\* no activation: the locals of _execute_julia_script before it is entered
NoCall ==
    [caller |-> 0, script |-> "none", initialized |-> FALSE, phase |-> "idle",
     error |-> "none", inFile |-> 0, outFile |-> 0, elapsed |-> 0,
     exitCode |-> 0, spawned |-> FALSE, env |-> NoEnv]

AddAll_Replace(table, rows) ==
    [r \in {rows[k] : k \in DOMAIN rows} |->
        Cardinality({k \in DOMAIN rows : rows[k] = r})]

\* db.add(res) for each row of a sequence
AddAll(table, rows) ==
    table (+) [r \in {rows[k] : k \in DOMAIN rows} |->
                 Cardinality({k \in DOMAIN rows : rows[k] = r})]

(* ------------------------------ Init ---------------------------------- *)
\* no read request was made yet
NoRead == [op |-> "none"]

\* RateLimiter(): no key seen; granted and last record what is_allowed
\* returned
Keys == {"10.0.0.1", "10.0.0.2"}
NewRateLimiter ==
    [requests |-> << >>, now |-> 0,
     granted |-> [k \in Keys |-> [t \in 0 .. MaxClock |-> 0]],
     last |-> [key |-> "none", at |-> 0, allowed |-> TRUE]]

\* ROLE_PERMISSIONS as the module defines it, for the roles and permissions
\* that are modelled
ROLE_PERMISSIONS ==
    [admin |-> [name |-> "admin", permissions |-> <<"farm:view", "breeding:run">>,
                is_system |-> TRUE],
     viewer |-> [name |-> "viewer", permissions |-> <<"farm:view">>,
                 is_system |-> TRUE],
     breeder |-> [name |-> "breeder", permissions |-> <<"farm:view", "breeding:run">>,
                  is_system |-> FALSE]]

\* set(list)
ToSet(list) == {list[k] : k \in DOMAIN list}

\* RBACService(): _load_role_permissions copies the table into the cache
NewRBACService ==
    [table |-> ROLE_PERMISSIONS,
     cache |-> [r \in DOMAIN ROLE_PERMISSIONS |-> ToSet(ROLE_PERMISSIONS[r].permissions)],
     last |-> [op |-> "none", code |-> "none", raised |-> 0]]

\* an empty table behind a BaseService; last is the last call and what it
\* returned
NoRow == [id |-> NULL]
NewStore ==
    [rows |-> << >>, now |-> 0,
     last |-> [op |-> "none", id |-> NULL, result |-> FALSE, before |-> NoRow]]

\* the barns that exist, and no location record yet
Barns == {1, 2}
NewFarm ==
    [locations |-> << >>, current_count |-> [b \in Barns |-> 0],
     last |-> [op |-> "none", animal_id |-> NULL, result |-> NULL]]

InitServices ==
    /\ reader = NoRead
    /\ farm = NewFarm
    /\ store = NewStore
    /\ rbac = NewRBACService
    /\ limiter = NewRateLimiter

InitCommon ==
    /\ runs = << >>
    /\ results = EmptyBag
    /\ tasks = << >>
    /\ calls = [c \in CallIds |-> NoCall]
    /\ fs = [n \in TmpNames |-> 0]
    /\ gwasInitialized = FALSE
    /\ InitServices

\* JuliaService.__init__ sets initialized = False
Init == InitCommon /\ freshInitialized = FALSE

(* --------------------------- submission ------------------------------- *)
NewRunId_Reused(rs) == 1

\* primary key of the row db.add / db.commit inserts (autoincrement)
NewRunId(rs) == Len(rs) + 1

\* background_tasks.add_task(execute_breeding_value_analysis, run_id=..., ...)
add_task(ts, id, m) ==
    Append(ts, [run_id |-> id, method |-> m, use_gpu |-> RunCreate(m).use_gpu,
                pc |-> "queued",
                response |-> "none", faulted |-> FALSE, doc |-> "none",
                sample |-> << >>])

\* POST /runs up to "return run_record"
create_breeding_value_run(m) ==
    /\ Len(runs) < MaxJobs
    /\ runs' = Append(runs, [method |-> m, status |-> "pending",
                             completed_at |-> FALSE,
                             computation_time_seconds |-> NULL,
                             n_animals |-> NULL, n_records |-> NULL])
    /\ tasks' = add_task(tasks, NewRunId(runs), m)
    /\ UNCHANGED <<results, calls, fs, gwasInitialized, freshInitialized, serviceVars>>

\* the framework serialises the returned row into the response and sends it;
\* the background tasks of the request run after that
send_response(t) ==
    /\ tasks[t].response = "none"
    /\ tasks' = [tasks EXCEPT ![t].response = runs[tasks[t].run_id].status]
    /\ UNCHANGED <<runs, results, calls, fs, gwasInitialized, freshInitialized, serviceVars>>

(* ----------------------- background executor -------------------------- *)
TaskMayStart_Eager(t) == tasks[t].pc = "queued"

TaskMayStart_Again(t) ==
    tasks[t].pc \in {"queued", "returned"} /\ tasks[t].response # "none"

\* a background task starts once the response of its request has been sent
TaskMayStart(t) == tasks[t].pc = "queued" /\ tasks[t].response # "none"

\* except Exception: ... run_record.status = "failed"; db.commit()
\* `pending` are the rows db.add() put into the session and not yet flushed;
\* the commit of the handler flushes them together with the status
HandlerCommitted(t, pending) ==
    /\ runs' = [runs EXCEPT ![tasks[t].run_id].status = "failed"]
    /\ results' = AddAll(results, pending)

execute_start_Uncommitted(t) ==
    /\ TaskMayStart(t)
    /\ tasks' = [tasks EXCEPT ![t].pc = "running"]
    /\ UNCHANGED <<runs, results, calls, fs, gwasInitialized, freshInitialized, serviceVars>>

\* lines 298-304: look the row up, mark it running, commit
execute_start(t) ==
    /\ TaskMayStart(t)
    /\ \E o \in {"ok", "lookup_error", "commit_error"} :
         CASE o = "ok" ->
                IF tasks[t].run_id \in DOMAIN runs
                THEN /\ runs' = [runs EXCEPT ![tasks[t].run_id].status = "running"]
                     /\ tasks' = [tasks EXCEPT ![t].pc = "running"]
                ELSE \* if not run_record: return
                     /\ tasks' = [tasks EXCEPT ![t].pc = "returned"]
                     /\ UNCHANGED runs
           [] o = "lookup_error" ->
                \* the handler reads run_record, which was never bound:
                \* UnboundLocalError leaves the function
                /\ tasks' = [tasks EXCEPT ![t].pc = "raised", ![t].faulted = TRUE]
                /\ UNCHANGED runs
           [] o = "commit_error" ->
                \* the failed commit leaves the session unusable, so the
                \* commit of the handler raises as well
                /\ tasks' = [tasks EXCEPT ![t].pc = "raised", ![t].faulted = TRUE]
                /\ UNCHANGED runs
    /\ UNCHANGED <<results, calls, fs, gwasInitialized, freshInitialized, serviceVars>>

\* lines 326-338: the routine of JuliaService the method is dispatched to,
\* named by the script the routine hands to _execute_julia_script
Routine(m) ==
    CASE m = "BLUP"    -> "run_blup_analysis.jl"
      [] m = "GBLUP"   -> "run_gblup_analysis.jl"
      [] m = "ssGBLUP" -> "run_ssgblup_analysis.jl"
      [] OTHER         -> "run_blup_analysis.jl"

\* a new activation of _execute_julia_script with its locals
NewCall(who, script, init) ==
    [NoCall EXCEPT !.caller = who, !.script = script, !.initialized = init,
                   !.phase = "entered"]

\* lines 307-338: build the service, query phenotype and pedigree, enter the
\* routine of the method (no commit and no suspension in between)
execute_invoke(t) ==
    /\ tasks[t].pc = "running"
    /\ \E o \in {"ok", "query_error_handled", "query_error_unhandled"} :
         CASE o = "ok" ->
                /\ t \in DOMAIN calls
                /\ tasks' = [tasks EXCEPT ![t].pc = "awaiting"]
                /\ calls' = [calls EXCEPT ![t] = NewCall(t, Routine(tasks[t].method),
                                                         freshInitialized)]
                /\ UNCHANGED <<runs, results>>
           [] o = "query_error_handled" ->
                /\ tasks' = [tasks EXCEPT ![t].pc = "returned", ![t].faulted = TRUE]
                /\ HandlerCommitted(t, << >>)
                /\ UNCHANGED calls
           [] o = "query_error_unhandled" ->
                \* the commit of the handler fails too
                /\ tasks' = [tasks EXCEPT ![t].pc = "raised", ![t].faulted = TRUE]
                /\ UNCHANGED <<runs, results, calls>>
    /\ UNCHANGED <<fs, gwasInitialized, freshInitialized, serviceVars>>

(* --------------------------- engine bridge ---------------------------- *)
\* POST /gwas/analyze: the module level service is initialized on first use
\* and run_gwas hands its script to _execute_julia_script
run_gwas_analysis ==
    /\ \E c \in GwasCallIds :
         /\ calls[c].phase = "idle"
         /\ \A d \in GwasCallIds : d < c => calls[d].phase # "idle"
         /\ calls' = [calls EXCEPT ![c] = NewCall(0, "run_gwas_analysis.jl", TRUE)]
    /\ gwasInitialized' = TRUE
    /\ UNCHANGED <<runs, results, tasks, fs, freshInitialized, serviceVars>>

\* tempfile.NamedTemporaryFile(mode='w', suffix='.json', delete=False): a
\* name no file has, created exclusively
NamedTemporaryFile(c) == 2 * c - 1

\* output paths other activations were handed and have no file yet
Promised(c) ==
    {calls[d].outFile : d \in {x \in CallIds \ {c} :
                                 /\ calls[x].phase \in {"waiting", "exited"}
                                 /\ fs[calls[x].outFile] = 0}}

\* tempfile.mktemp(suffix='.json'): some name that has no file at the time
\* of the call; no file is created, so the name stays free for the next
\* caller. 2 * c stands for the names nobody else was handed.
mktemp(c) == {2 * c} \cup Promised(c)

\* finally: Path(input_file).unlink(missing_ok=True); same for output_file
Unlink(f, a, b) == [n \in DOMAIN f |-> IF n \in {a, b} THEN 0 ELSE f[n]]

\* the activation ends: what its caller gets; the other locals are gone
Raised(call, err) ==
    [call EXCEPT !.phase = "raised", !.error = err, !.elapsed = 0, !.exitCode = 0]
Returned(call) ==
    [call EXCEPT !.phase = "returned", !.elapsed = 0, !.exitCode = 0]

\* _execute_julia_script up to "await asyncio.create_subprocess_exec(...)"
bridge_start(c) ==
    /\ calls[c].phase = "entered"
    /\ IF ~calls[c].initialized
       THEN /\ calls' = [calls EXCEPT ![c] = Raised(@, "NotInitialized")]
            /\ UNCHANGED fs
       ELSE LET i == NamedTemporaryFile(c)
            IN  \E outcome \in {"dump_error", "spawn_error", "spawned"},
                   o \in mktemp(c) :
                 CASE outcome = "dump_error" ->
                        \* json.dump raises inside the with block, before try:
                        /\ calls' = [calls EXCEPT
                                       ![c] = Raised([@ EXCEPT !.inFile = i], "DumpError")]
                        /\ fs' = [fs EXCEPT ![i] = -c]
                   [] outcome = "spawn_error" ->
                        /\ calls' = [calls EXCEPT
                                       ![c] = Raised([@ EXCEPT !.inFile = i, !.outFile = o],
                                                     "MissingExecutable")]
                        /\ fs' = Unlink([fs EXCEPT ![i] = -c], i, o)
                   [] outcome = "spawned" ->
                        /\ calls' = [calls EXCEPT ![c].phase = "waiting",
                                                  ![c].spawned = TRUE,
                                                  ![c].env = ProcessEnv,
                                                  ![c].inFile = i,
                                                  ![c].outFile = o]
                        /\ fs' = [fs EXCEPT ![i] = -c]
    /\ UNCHANGED <<runs, results, tasks, gwasInitialized, freshInitialized, serviceVars>>

\* time passes while "await process.communicate()" waits
engine_tick(c) ==
    /\ calls[c].phase = "waiting"
    /\ calls[c].elapsed < MaxElapsed
    /\ calls' = [calls EXCEPT ![c].elapsed = @ + 1]
    /\ UNCHANGED <<runs, results, tasks, fs, gwasInitialized, freshInitialized, serviceVars>>

\* the engine process writes (or not) its output document and exits
engine_exit(c) ==
    /\ calls[c].phase = "waiting"
    /\ \E code \in {0, 1}, wrote \in BOOLEAN :
         /\ code = 1 => ~wrote
         /\ calls' = [calls EXCEPT ![c].phase = "exited", ![c].exitCode = code]
         /\ fs' = IF wrote THEN [fs EXCEPT ![calls[c].outFile] = c] ELSE fs
    /\ UNCHANGED <<runs, results, tasks, gwasInitialized, freshInitialized, serviceVars>>

\* lines 276-290: exit code, output document, cleanup; the text of the
\* document is looked at when json.load reads it
bridge_finish(c) ==
    /\ calls[c].phase = "exited"
    /\ \E parses \in BOOLEAN :
         calls' =
           IF calls[c].exitCode # 0
           THEN [calls EXCEPT ![c] = Raised(@, "ExitFailure")]
           ELSE IF fs[calls[c].outFile] = 0
           THEN [calls EXCEPT ![c] = Raised(@, "FileNotFound")]
           ELSE IF ~parses
           THEN [calls EXCEPT ![c] = Raised(@, "JSONDecodeError")]
           ELSE [calls EXCEPT ![c] = Returned(@)]
    /\ fs' = Unlink(fs, calls[c].inFile, calls[c].outFile)
    /\ UNCHANGED <<runs, results, tasks, gwasInitialized, freshInitialized, serviceVars>>

\* gwas.py lines 39-51: the result, or HTTP 500, goes to the client
gwas_respond(c) ==
    /\ c \in GwasCallIds
    /\ calls[c].phase \in {"returned", "raised"}
    /\ calls' = [calls EXCEPT ![c].phase = "consumed"]
    /\ UNCHANGED <<runs, results, tasks, fs, gwasInitialized, freshInitialized, serviceVars>>

(* --------------------------- result collector ------------------------- *)
Row_Swapped(id, animal, ebv, rel, pct) ==
    [run_id |-> id, animal_id |-> animal, ebv |-> rel, reliability |-> ebv,
     accuracy |-> Accuracy, percentile_rank |-> pct]

Row_FirstRun(id, animal, ebv, rel, pct) ==
    [run_id |-> 1, animal_id |-> animal, ebv |-> ebv, reliability |-> rel,
     accuracy |-> Accuracy, percentile_rank |-> pct]

\* BreedingValueResultModel(run_id=..., animal_id=..., ebv=..., ...)
Row(id, animal, ebv, rel, pct) ==
    [run_id |-> id, animal_id |-> animal, ebv |-> ebv, reliability |-> rel,
     accuracy |-> Accuracy, percentile_rank |-> pct]

FallbackRows_FirstOnly(id, sample) ==
    [k \in 1 .. (IF sample = << >> THEN 0 ELSE 1) |->
        Row(id, sample[k], 50 * (k - 1), 50 + ((k - 1) % 50), FallbackPercentile)]

\* lines 354-363: placeholder rows over the phenotype sample (i counts from 0)
FallbackRows(id, sample) ==
    [k \in 1 .. Len(sample) |->
        Row(id, sample[k], 50 * (k - 1), 50 + ((k - 1) % 50), FallbackPercentile)]

\* lines 365-374: one row per item of ebvs, until int(anim_id) raises
EngineRows(id, items, rels) ==
    LET F[k \in 0 .. Len(items)] ==
          IF k = 0 THEN [rows |-> << >>, ok |-> TRUE]
          ELSE LET p == F[k - 1]
                   key == items[k][1]
               IN  IF ~p.ok THEN p
                   ELSE IF ~IntParsable(key) THEN [rows |-> p.rows, ok |-> FALSE]
                   ELSE [rows |-> Append(p.rows,
                                    Row(id, IntOf(key), items[k][2],
                                        IF key \in DOMAIN rels THEN rels[key]
                                        ELSE DefaultReliability, 0)),
                         ok |-> TRUE]
    IN  F[Len(items)]

\* lines 345-374: the rows added to the session, and whether the loop ended
\* without an exception (result.get raises on a document that is no object)
Collect(id, doc, sample) ==
    IF doc \notin ObjectDocs THEN [rows |-> << >>, ok |-> FALSE]
    ELSE IF DocEbvs(doc) = << >> THEN [rows |-> FallbackRows(id, sample), ok |-> TRUE]
    ELSE EngineRows(id, DocEbvs(doc), DocReliabilities(doc))

CompletedCommitted_StatusFirst(t, rows) ==
    /\ runs' = [runs EXCEPT ![tasks[t].run_id].status = "completed"]
    /\ results' = results

\* lines 376-380: status, timestamp and counts, committed with the added rows
CompletedCommitted(t, rows) ==
    /\ runs' = [runs EXCEPT ![tasks[t].run_id] =
                   [@ EXCEPT !.status = "completed", !.completed_at = TRUE,
                             !.n_animals = NAnimalsWritten,
                             !.n_records = NAnimalsWritten]]
    /\ results' = AddAll(results, rows)

\* phenotype_data["animal_ids"] (line 313) is read by the fallback loop only
SamplesRead(doc) ==
    IF doc \in ObjectDocs /\ DocEbvs(doc) = << >> THEN PhenoSamples ELSE {<< >>}

\* lines 338-390 after the routine returned or raised.  `doc` is the document
\* json.load returned and `sample` what the query of line 311 gave; both are
\* first looked at here
execute_finish(t) ==
    /\ tasks[t].pc = "awaiting"
    /\ calls[t].phase \in {"returned", "raised"}
    /\ \E commit_ok \in BOOLEAN :
         IF ~commit_ok
         THEN \* the commit raises: nothing is written, the error escapes
              /\ tasks' = [tasks EXCEPT ![t].pc = "raised", ![t].faulted = TRUE]
              /\ UNCHANGED <<runs, results>>
         ELSE IF calls[t].phase = "raised"
         THEN /\ tasks' = [tasks EXCEPT ![t].pc = "returned"]
              /\ HandlerCommitted(t, << >>)
         ELSE \E doc \in FileContents \ {"garbage"} :
              \E sample \in SamplesRead(doc) :
              LET got == Collect(tasks[t].run_id, doc, sample) IN
              /\ tasks' = [tasks EXCEPT ![t].pc = "returned", ![t].doc = doc,
                                        ![t].sample = sample]
              /\ IF got.ok THEN CompletedCommitted(t, got.rows)
                           ELSE HandlerCommitted(t, got.rows)
    /\ calls' = [calls EXCEPT ![t].phase = "consumed"]
    /\ UNCHANGED <<fs, gwasInitialized, freshInitialized, serviceVars>>

(* ---------------------------- specifications -------------------------- *)
\* the job core of the repository as it is: every JuliaService() a job builds
\* starts uninitialized
Next ==
    \/ \E m \in Methods : create_breeding_value_run(m)
    \/ \E t \in DOMAIN tasks : send_response(t)
    \/ \E t \in DOMAIN tasks : execute_start(t)
    \/ \E t \in DOMAIN tasks : execute_invoke(t)
    \/ \E c \in DOMAIN calls : bridge_start(c)
    \/ \E t \in DOMAIN tasks : execute_finish(t)

Spec == Init /\ [][Next]_vars

\* the engine bridge under the caller that initializes it (gwas.py)
NextBridge ==
    \/ run_gwas_analysis
    \/ \E c \in DOMAIN calls : bridge_start(c)
    \/ \E c \in DOMAIN calls : engine_tick(c)
    \/ \E c \in DOMAIN calls : engine_exit(c)
    \/ \E c \in DOMAIN calls : bridge_finish(c)
    \/ \E c \in DOMAIN calls : gwas_respond(c)

SpecBridge == Init /\ [][NextBridge]_vars

\* the executor composed with a bridge whose initialized flag is set (what
\* initialize() does at line 100): the composition in which the engine is
\* reached from a job.  The code has no clock, so none is kept here.
InitInitialized == InitCommon /\ freshInitialized = TRUE

NextInitialized ==
    \/ Next
    \/ \E c \in DOMAIN calls : engine_exit(c)
    \/ \E c \in DOMAIN calls : bridge_finish(c)

SpecInitialized == InitInitialized /\ [][NextInitialized]_vars

(* ------------------------------- readers ------------------------------ *)
\* GET /runs/{run_id}: the row as BreedingValueRunResponse serializes it
\* (404 for an id without a row)
get_breeding_value_run(run_id) ==
    IF run_id \notin DOMAIN runs THEN [status_code |-> 404]
    ELSE [status_code |-> 200, id |-> run_id,
          method |-> runs[run_id].method,
          status |-> runs[run_id].status,
          completed_at |-> runs[run_id].completed_at,
          computation_time_seconds |-> runs[run_id].computation_time_seconds,
          n_animals |-> runs[run_id].n_animals,
          n_records |-> runs[run_id].n_records]

\* Python truth of an Optional value, << >> standing for None
Truthy(opt) == opt # << >> /\ opt[1] # 0
TruthyStr(opt) == opt # << >> /\ opt[1] # ""

\* query.offset(skip).limit(limit).all() over rows in database order
OffsetLimit(sq, skip, limit) ==
    SubSeq(sq, skip + 1, IF skip + limit < Len(sq) THEN skip + limit ELSE Len(sq))

\* the orders in which a query without ORDER BY may return the bag B
Enumerations(B) ==
    {sq \in [1 .. BagCardinality(B) -> BagToSet(B)] :
        \A r \in BagToSet(B) :
            Cardinality({k \in DOMAIN sq : sq[k] = r}) = CopiesIn(r, B)}

\* GET /runs/{run_id}/results: the rows the query selects (lines 231-234)
ResultsQuery(run_id, min_reliability) ==
    LET S == {r \in BagToSet(results) :
                 /\ r.run_id = run_id
                 /\ Truthy(min_reliability) => r.reliability >= min_reliability[1]}
    IN  [r \in S |-> CopiesIn(r, results)]

\* GET /runs/{run_id}/results: what the handler returns, for the order the
\* database happens to use
get_breeding_value_results(run_id, skip, limit, min_reliability, order) ==
    OffsetLimit(order, skip, limit)

\* GET /runs: ids of the rows selected (lines 267-272), newest first
\* (started_at is the time of submission, so ids are in its order)
list_breeding_value_runs(skip, limit, status, method) ==
    LET S == {j \in DOMAIN runs :
                 /\ TruthyStr(status) => runs[j].status = status[1]
                 /\ TruthyStr(method) => runs[j].method = method[1]}
        n == Cardinality(S)
        desc == [k \in 1 .. n |->
                   CHOOSE j \in S : Cardinality({i \in S : i > j}) = k - 1]
    IN  OffsetLimit(desc, skip, limit)

\* a GET /runs/{run_id} that files a job for an id it does not know
GET_run_Creating(run_id) ==
    /\ runs' = IF run_id \in DOMAIN runs THEN runs
               ELSE Append(runs, [method |-> "GBLUP", status |-> "pending",
                                  completed_at |-> FALSE,
                                  computation_time_seconds |-> NULL,
                                  n_animals |-> NULL, n_records |-> NULL])
    /\ reader' = [op |-> "get", run_id |-> run_id,
                  response |-> [status_code |-> 200, id |-> Len(runs')]]
    /\ UNCHANGED <<results, tasks, calls, fs, gwasInitialized, freshInitialized,
                   limiter, rbac, store, farm>>

\* a client calls GET /runs/{run_id}
GET_run(run_id) ==
    /\ reader' = [op |-> "get", run_id |-> run_id,
                  response |-> get_breeding_value_run(run_id)]
    /\ UNCHANGED <<jobVars, limiter, rbac, store, farm>>

\* a client calls GET /runs/{run_id}/results
GET_results(run_id, skip, limit, min_reliability) ==
    /\ \E order \in Enumerations(ResultsQuery(run_id, min_reliability)) :
         reader' = [op |-> "results", run_id |-> run_id, skip |-> skip,
                    limit |-> limit, min_reliability |-> min_reliability,
                    response |-> get_breeding_value_results(
                                    run_id, skip, limit, min_reliability, order)]
    /\ UNCHANGED <<jobVars, limiter, rbac, store, farm>>

\* a client calls GET /runs
GET_runs(skip, limit, status, method) ==
    /\ reader' = [op |-> "list", skip |-> skip, limit |-> limit,
                  status |-> status, method |-> method,
                  response |-> list_breeding_value_runs(skip, limit, status, method)]
    /\ UNCHANGED <<jobVars, limiter, rbac, store, farm>>

\* a job row as the executor leaves it in the given status
JobRow(st) ==
    [method |-> "GBLUP", status |-> st, completed_at |-> (st = "completed"),
     computation_time_seconds |-> NULL,
     n_animals |-> IF st = "completed" THEN NAnimalsWritten ELSE NULL,
     n_records |-> IF st = "completed" THEN NAnimalsWritten ELSE NULL]

\* rows of a job completed from the engine output
\* {"ebvs": {"101": 2.45, "102": -0.3}, "reliabilities": {"101": 0.75, "102": -0.1}}
\* and of a job completed by the fallback over the sample [101, 102]
SnapshotRows(j, kind) ==
    CASE kind = "engine" ->
           EngineRows(j, << <<"101", 245>>, <<"102", -30>> >>,
                      ("101" :> 75) @@ ("102" :> -10)).rows
      [] kind = "fallback" -> FallbackRows(j, <<101, 102>>)
      [] OTHER -> << >>

\* the database as the readers find it: two jobs, the first in a final
\* status, the second anywhere in its life
InitReaders ==
    /\ \E s1 \in {"completed", "failed"},
          s2 \in {"pending", "running", "completed", "failed"},
          k1 \in {"engine", "fallback"}, k2 \in {"engine", "fallback"} :
          /\ runs = <<JobRow(s1), JobRow(s2)>>
          /\ results =
                AddAll(AddAll(EmptyBag,
                              IF s1 = "completed" THEN SnapshotRows(1, k1) ELSE << >>),
                       IF s2 = "completed" THEN SnapshotRows(2, k2) ELSE << >>)
    /\ tasks = << >>
    /\ calls = [c \in CallIds |-> NoCall]
    /\ fs = [n \in TmpNames |-> 0]
    /\ gwasInitialized = FALSE
    /\ freshInitialized = FALSE
    /\ InitServices

RunIdsAsked == 1 .. 3
MinReliabilities == {<< >>, <<0>>, <<50>>}

NextReaders ==
    \/ \E id \in RunIdsAsked : GET_run(id)
    \/ \E id \in RunIdsAsked, skip \in 0 .. MaxSkip, limit \in 1 .. MaxLimit,
          m \in MinReliabilities : GET_results(id, skip, limit, m)
    \/ \E skip \in 0 .. MaxSkip, limit \in 1 .. MaxLimit,
          st \in {<< >>, <<"completed">>}, m \in {<< >>, <<"GBLUP">>} :
          GET_runs(skip, limit, st, m)

SpecReaders == InitReaders /\ [][NextReaders]_vars

(* ----------------------------- rate limiter ---------------------------- *)

\* [t for t in self._requests[key] if t > window_start]
Prune(list, window_start) ==
    LET Kept(t) == t > window_start IN SelectSeq(list, Kept)

\* len(self._requests[key]) >= max_requests, and the same test one too late
LimitReached_Late(list) == Len(list) > MaxRequests

LimitReached(list) == Len(list) >= MaxRequests

\* rate_limiter.is_allowed(key, MaxRequests, WindowSeconds) at the time the
\* clock shows; the call runs to its end without an await
is_allowed(key) ==
    LET now == limiter.now
        window_start == now - WindowSeconds
        known == IF key \in DOMAIN limiter.requests THEN limiter.requests
                 ELSE limiter.requests @@ (key :> << >>)
        pruned == [known EXCEPT ![key] = Prune(known[key], window_start)]
    IN  /\ limiter' =
             IF LimitReached(pruned[key])
             THEN [limiter EXCEPT !.requests = pruned,
                                  !.last = [key |-> key, at |-> now,
                                            allowed |-> FALSE]]
             ELSE [limiter EXCEPT !.requests =
                                      [pruned EXCEPT ![key] = Append(@, now)],
                                  !.granted[key][now] = @ + 1,
                                  !.last = [key |-> key, at |-> now,
                                            allowed |-> TRUE]]
        /\ UNCHANGED <<jobVars, reader, rbac, store, farm>>

\* time passes between two requests
clock_tick ==
    /\ limiter.now < MaxClock
    /\ limiter' = [limiter EXCEPT !.now = @ + 1]
    /\ UNCHANGED <<jobVars, reader, rbac, store, farm>>

NextRateLimiter ==
    \/ \E key \in Keys : is_allowed(key)
    \/ clock_tick

SpecRateLimiter == Init /\ [][NextRateLimiter]_vars

(* --------------------------------- roles ------------------------------- *)

RoleCodes == {"admin", "viewer", "breeder", "auditor"}
PermissionLists == {<< >>, <<"farm:view">>, <<"farm:view", "breeding:run">>}

\* role_data: code and name, and permissions when the caller gave the key
\* (<< >> when the key is absent, <<list>> when it is there)
RoleData ==
    [code : RoleCodes, name : {"renamed"},
     permissions : {<< >>} \cup {<<l>> : l \in PermissionLists}]

\* dict.get(key, default)
Get(opt, default) == IF opt = << >> THEN default ELSE opt[1]

\* a function without the key k
Del(f, k) == [x \in DOMAIN f \ {k} |-> f[x]]

\* ROLE_PERMISSIONS[role_code].get('is_system'), and a table without
\* protected roles
is_system_Never(role_code) == FALSE

is_system(role_code) == rbac.table[role_code].is_system

Raise(op, code, status_code) ==
    rbac' = [rbac EXCEPT !.last = [op |-> op, code |-> code, raised |-> status_code]]

create_role(role_data) ==
    LET role_code == role_data.code IN
    /\ IF role_code \in DOMAIN rbac.table
       THEN Raise("create_role", role_code, 400)
       ELSE rbac' =
              [table |-> rbac.table @@
                         (role_code :> [name |-> role_data.name,
                                        permissions |-> Get(role_data.permissions, << >>),
                                        is_system |-> FALSE]),
               cache |-> rbac.cache @@
                         (role_code :> ToSet(Get(role_data.permissions, << >>))),
               last |-> [op |-> "create_role", code |-> role_code, raised |-> 0]]
    /\ UNCHANGED <<jobVars, reader, limiter, store, farm>>

update_role(role_code, role_data) ==
    /\ IF role_code \notin DOMAIN rbac.table
       THEN Raise("update_role", role_code, 404)
       ELSE IF is_system(role_code)
       THEN Raise("update_role", role_code, 403)
       ELSE rbac' =
              [table |-> [rbac.table EXCEPT ![role_code] =
                            [name |-> role_data.name,
                             permissions |-> Get(role_data.permissions, @.permissions),
                             is_system |-> @.is_system]],
               cache |-> [rbac.cache EXCEPT ![role_code] =
                            ToSet(Get(role_data.permissions, << >>))],
               last |-> [op |-> "update_role", code |-> role_code, raised |-> 0]]
    /\ UNCHANGED <<jobVars, reader, limiter, store, farm>>

delete_role(role_code) ==
    /\ IF role_code \notin DOMAIN rbac.table
       THEN Raise("delete_role", role_code, 404)
       ELSE IF is_system(role_code)
       THEN Raise("delete_role", role_code, 403)
       ELSE rbac' =
              [table |-> Del(rbac.table, role_code),
               cache |-> Del(rbac.cache, role_code),
               last |-> [op |-> "delete_role", code |-> role_code, raised |-> 0]]
    /\ UNCHANGED <<jobVars, reader, limiter, store, farm>>

\* self._role_permissions_cache.get(role_code, set())
get_role_permissions(role_code) ==
    IF role_code \in DOMAIN rbac.cache THEN rbac.cache[role_code] ELSE {}

\* has_permission for a user with the one role
has_permission(role_code, required_permission) ==
    required_permission \in get_role_permissions(role_code)

\* list_roles: code -> permissions, read from the table
list_roles == [r \in DOMAIN rbac.table |-> rbac.table[r].permissions]

NextRBAC ==
    \/ \E d \in RoleData : create_role(d)
    \/ \E d \in RoleData : update_role(d.code, d)
    \/ \E c \in RoleCodes : delete_role(c)

SpecRBAC == Init /\ [][NextRBAC]_vars

(* ------------------------------ base service -------------------------- *)

RecordIds == 1 .. MaxRecords
RecordNames == {"DEL001", "DEL002"}
UserIds == {NULL, 7}

\* filter(self.model.is_deleted == False), and a query without the filter
Visible_All(row) == TRUE

Visible(row) == ~row.is_deleted

\* BaseService.get(id): the row, or NoRow for None
get(id) ==
    IF id \in DOMAIN store.rows /\ Visible(store.rows[id]) THEN store.rows[id]
    ELSE NoRow

\* BaseService.exists(id)
exists(id) == Cardinality({i \in DOMAIN store.rows \cap {id} : Visible(store.rows[i])}) > 0

\* BaseService.get_multi() with its defaults: ids in descending order
get_multi ==
    LET S == {i \in DOMAIN store.rows : Visible(store.rows[i])}
    IN  OffsetLimit([k \in 1 .. Cardinality(S) |->
                       CHOOSE i \in S : Cardinality({j \in S : j > i}) = k - 1],
                    0, 20)

\* BaseService.count()
count == Cardinality({i \in DOMAIN store.rows : Visible(store.rows[i])})

\* SoftDeleteMixin.soft_delete and restore; the UPDATE that writes the row
\* sets updated_at (onupdate=func.now())
soft_delete(row, user_id) ==
    [row EXCEPT !.is_deleted = TRUE, !.deleted_at = store.now,
                !.deleted_by = user_id, !.updated_at = store.now]

restore_row(row) ==
    [row EXCEPT !.is_deleted = FALSE, !.deleted_at = NULL,
                !.deleted_by = NULL, !.updated_at = store.now]

Called(op, id, result, before) ==
    [op |-> op, id |-> id, result |-> result, before |-> before]

\* BaseService.create(obj_in)
create(name) ==
    LET id == Len(store.rows) + 1 IN
    /\ id <= MaxRecords
    /\ store' = [store EXCEPT
                   !.rows = Append(@, [id |-> id, name |-> name,
                                       updated_at |-> store.now,
                                       is_deleted |-> FALSE,
                                       deleted_at |-> NULL, deleted_by |-> NULL,
                                       purged |-> FALSE]),
                   !.last = Called("create", id, TRUE, NoRow)]
    /\ UNCHANGED <<jobVars, reader, limiter, rbac, farm>>

\* BaseService.update(id, obj_in) with obj_in = {name}
update(id, name) ==
    /\ store' =
         IF get(id) = NoRow
         THEN [store EXCEPT !.last = Called("update", id, FALSE, NoRow)]
         ELSE [store EXCEPT !.rows[id].name = name,
                            !.rows[id].updated_at = store.now,
                            !.last = Called("update", id, TRUE, NoRow)]
    /\ UNCHANGED <<jobVars, reader, limiter, rbac, farm>>

\* BaseService.delete(id, soft, user_id); a row deleted for good stays in
\* the sequence as purged and invisible, its id is not given again
delete(id, soft, user_id) ==
    /\ store' =
         IF get(id) = NoRow
         THEN [store EXCEPT !.last = Called("delete", id, FALSE, NoRow)]
         ELSE IF soft
         THEN [store EXCEPT !.rows[id] = soft_delete(@, user_id),
                            !.last = Called("soft_delete", id, TRUE, get(id))]
         ELSE [store EXCEPT !.rows[id] = [@ EXCEPT !.purged = TRUE,
                                                   !.is_deleted = TRUE],
                            !.last = Called("delete", id, TRUE, NoRow)]
    /\ UNCHANGED <<jobVars, reader, limiter, rbac, farm>>

\* BaseService.restore(id); before is kept when the call follows the soft
\* delete of the same record
restore(id) ==
    /\ store' =
         IF id \in DOMAIN store.rows /\ store.rows[id].is_deleted
                                     /\ ~store.rows[id].purged
         THEN [store EXCEPT !.rows[id] = restore_row(@),
                            !.last = Called("restore", id, TRUE,
                                            IF /\ store.last.op = "soft_delete"
                                               /\ store.last.id = id
                                            THEN store.last.before ELSE NoRow)]
         ELSE [store EXCEPT !.last = Called("restore", id, FALSE, NoRow)]
    /\ UNCHANGED <<jobVars, reader, limiter, rbac, farm>>

\* time passes between two calls
store_tick ==
    /\ store.now < MaxStoreClock
    /\ store' = [store EXCEPT !.now = @ + 1]
    /\ UNCHANGED <<jobVars, reader, limiter, rbac, farm>>

NextStore ==
    \/ \E n \in RecordNames : create(n)
    \/ \E id \in RecordIds, n \in RecordNames : update(id, n)
    \/ \E id \in RecordIds, soft \in BOOLEAN, u \in UserIds : delete(id, soft, u)
    \/ \E id \in RecordIds : restore(id)
    \/ store_tick

SpecStore == Init /\ [][NextStore]_vars

(* -------------------------------- locations ---------------------------- *)

Animals == {1, 2}
BarnIdsAsked == Barns \cup {3}

\* open records of an animal, in the order of their ids
OpenLocations(animal_id) ==
    {k \in DOMAIN farm.locations :
        /\ farm.locations[k].animal_id = animal_id
        /\ farm.locations[k].exit_date = NULL}

\* AnimalLocationService.get_current_location: the ids .first() may return
\* (none when there is no open record), and a lookup that finds nothing
get_current_location_None(animal_id) == {NULL}

get_current_location(animal_id) ==
    IF OpenLocations(animal_id) = {} THEN {NULL} ELSE OpenLocations(animal_id)

\* the time of a statement: records written so far
LocationNow == Len(farm.locations) + 1

\* AnimalLocation.close
close(location, exit_reason) ==
    [location EXCEPT !.exit_date = LocationNow, !.exit_reason = exit_reason]

\* BarnService.update_count, for every barn the handler recounts
update_count(locations, counts, barns) ==
    [b \in Barns |->
        IF b \in barns
        THEN Cardinality({k \in DOMAIN locations :
                            /\ locations[k].barn_id = b
                            /\ locations[k].exit_date = NULL})
        ELSE counts[b]]

\* the body of assign_to_barn: the value of farm after the call
Assigned(op, animal_id, barn_id, entry_reason) ==
    IF barn_id \notin Barns
    THEN \* the INSERT violates the foreign key, the commit raises and
         \* nothing of the transaction is kept
         {[farm EXCEPT !.last = [op |-> op, animal_id |-> animal_id,
                                 result |-> "IntegrityError"]]}
    ELSE {LET closed == IF current = NULL THEN farm.locations
                        ELSE [farm.locations EXCEPT
                                ![current] = close(@, "transfer")]
              location == [animal_id |-> animal_id, barn_id |-> barn_id,
                           entry_date |-> LocationNow, exit_date |-> NULL,
                           entry_reason |-> entry_reason, exit_reason |-> NULL]
              added == Append(closed, location)
              recount == {barn_id} \cup
                         (IF current = NULL THEN {}
                          ELSE {farm.locations[current].barn_id})
          IN  [locations |-> added,
               current_count |-> update_count(added, farm.current_count, recount),
               last |-> [op |-> op, animal_id |-> animal_id,
                         result |-> Len(added)]]
          : current \in get_current_location(animal_id)}

\* AnimalLocationService.assign_to_barn
assign_to_barn(animal_id, barn_id) ==
    /\ Len(farm.locations) < MaxLocations
    /\ farm' \in Assigned("assign_to_barn", animal_id, barn_id, "assigned")
    /\ UNCHANGED <<jobVars, reader, limiter, rbac, store>>

\* AnimalLocationService.transfer
transfer(animal_id, target_barn_id) ==
    /\ Len(farm.locations) < MaxLocations
    /\ IF get_current_location(animal_id) = {NULL} \/ target_barn_id \notin Barns
       THEN farm' = [farm EXCEPT !.last = [op |-> "transfer",
                                           animal_id |-> animal_id,
                                           result |-> NULL]]
       ELSE farm' \in Assigned("transfer", animal_id, target_barn_id, "transfer")
    /\ UNCHANGED <<jobVars, reader, limiter, rbac, store>>

NextFarm ==
    \/ \E a \in Animals, b \in BarnIdsAsked : assign_to_barn(a, b)
    \/ \E a \in Animals, b \in BarnIdsAsked : transfer(a, b)

SpecFarm == Init /\ [][NextFarm]_vars

(* ------------------------------- claims ------------------------------- *)
RowsOf(j) == {r \in BagToSet(results) : r.run_id = j}
Terminal(st) == st \in {"completed", "failed"}
InBridge(t) == t \in DOMAIN calls /\ calls[t].phase \in {"entered", "waiting", "exited"}
Ended(ph) == ph \in {"returned", "raised", "consumed"}

\* C1: the status of a job only ever moves pending -> running,
\* running -> completed or running -> failed; a completed or failed job keeps
\* its status, and no job row disappears.
C1_StatusStep(old, new) ==
    \/ new = old
    \/ old = "pending" /\ new = "running"
    \/ old = "running" /\ Terminal(new)

C1_StatusMonotonic ==
    [][/\ DOMAIN runs \subseteq DOMAIN runs'
       /\ \A j \in DOMAIN runs : C1_StatusStep(runs[j].status, runs'[j].status)]_vars

C1_Witness ==
    \E j, k \in DOMAIN runs :
        runs[j].status = "completed" /\ runs[k].status = "failed"

\* C2: in every state a job that is completed has its result rows in the
\* table: at least one row, unless the engine's map was empty and the
\* phenotype sample had no subject.
C2_CompletedHasRows ==
    \A t \in DOMAIN tasks :
        runs[tasks[t].run_id].status = "completed" =>
            \/ RowsOf(tasks[t].run_id) # {}
            \/ DocEbvs(tasks[t].doc) = << >> /\ tasks[t].sample = << >>

C2_Witness ==
    \E t \in DOMAIN tasks :
        /\ runs[tasks[t].run_id].status = "completed"
        /\ tasks[t].doc = "docA"
        /\ RowsOf(tasks[t].run_id) # {}

\* C3 (as claimed): a failed job has no result row.
C3_FailedHasNoRows ==
    \A j \in DOMAIN runs : runs[j].status = "failed" => RowsOf(j) = {}

\* C4: one job row and one task per submission, and when the response of a
\* submission is produced the job is pending and its executor has not started:
\* the response carries status pending, and before it no routine of the bridge
\* was entered and no process spawned for the job.
C4_PendingAtResponse ==
    /\ Len(runs) = Len(tasks)
    /\ \A t \in DOMAIN tasks :
         /\ tasks[t].run_id = t
         /\ tasks[t].response \in {"none", "pending"}
         /\ tasks[t].response = "none" =>
              /\ runs[tasks[t].run_id].status = "pending"
              /\ tasks[t].pc = "queued"
              /\ calls[t].phase = "idle" /\ ~calls[t].spawned

C4_Witness ==
    \E t \in DOMAIN tasks :
        tasks[t].response = "pending" /\ runs[tasks[t].run_id].status = "failed"

\* C5 (as claimed): no error leaves execute_breeding_value_analysis, and a
\* task in which a step failed leaves its job failed.
C5_NothingEscapes ==
    \A t \in DOMAIN tasks :
        /\ tasks[t].pc # "raised"
        /\ (tasks[t].pc = "returned" /\ tasks[t].faulted) =>
              runs[tasks[t].run_id].status = "failed"

\* C6 (as claimed): when an activation of _execute_julia_script returns or
\* raises, neither its input file nor its output file exists.
C6_TempFilesRemoved ==
    [][\A c \in DOMAIN calls :
          (~Ended(calls[c].phase) /\ Ended(calls'[c].phase)) =>
              /\ calls'[c].inFile # 0 => fs'[calls'[c].inFile] = 0
              /\ calls'[c].outFile # 0 => fs'[calls'[c].outFile] = 0]_vars

\* C7: for every job at most one executor is inside the engine bridge.
C7_OneInvocationPerJob ==
    \A j \in DOMAIN runs :
        Cardinality({t \in DOMAIN tasks : tasks[t].run_id = j /\ InBridge(t)}) <= 1

C7_Witness ==
    \E s, t \in DOMAIN tasks :
        /\ tasks[s].run_id # tasks[t].run_id
        /\ calls[s].phase = "waiting" /\ calls[t].phase = "waiting"

\* C8 (as claimed): no engine process is waited for beyond the budget.
C8_TimeoutEnforced ==
    \A c \in DOMAIN calls :
        calls[c].phase = "waiting" => calls[c].elapsed <= TimeoutBudget

\* C9 (as claimed): for a job whose method is outside the supported set no
\* routine of the bridge is entered and no engine process is spawned.
C9_UnsupportedNeverInvoked ==
    \A t \in DOMAIN tasks :
        tasks[t].method \notin SupportedMethods =>
            /\ t \in DOMAIN calls => calls[t].phase = "idle"
            /\ t \in DOMAIN calls => ~calls[t].spawned

\* C10 (as claimed): a job with a supported method whose task ran to its end
\* without a database error and without a failure of the engine (missing
\* executable, nonzero exit, missing or unparsable output) is completed.
EngineFailures ==
    {"DumpError", "MissingExecutable", "ExitFailure", "FileNotFound",
     "JSONDecodeError"}

C10_SupportedCompletes ==
    \A t \in DOMAIN tasks :
        ( /\ tasks[t].pc = "returned"
          /\ ~tasks[t].faulted
          /\ tasks[t].method \in SupportedMethods
          /\ calls[t].error \notin EngineFailures
          /\ tasks[t].doc \in {"none", "docA", "docEmpty"} )
        => runs[tasks[t].run_id].status = "completed"

\* the diagnostic text a job read back carries: the value of an error
\* message field, "" when the record has no such field
ErrorMessage(job) ==
    IF "error_message" \in DOMAIN job THEN job.error_message ELSE ""

\* C11 (as claimed): a job that failed because its engine exited with a
\* nonzero code (the bridge raised RuntimeError with the stderr text), read back
\* through get_breeding_value_run, is failed and carries that error's text.
C11_ErrorTextRetained ==
    \A t \in DOMAIN tasks :
        ( /\ tasks[t].pc = "returned"
          /\ calls[t].error = "ExitFailure" )
        => /\ get_breeding_value_run(tasks[t].run_id).status = "failed"
           /\ ErrorMessage(get_breeding_value_run(tasks[t].run_id)) = calls[t].error

\* C12: a job completed from a non-empty per-subject map has exactly one
\* result row per key of the map and no other row: its subject is the key
\* read as an integer, its ebv the mapped value, and its reliability the
\* value the reliabilities map gives for that key.
C12_OneRowPerKey ==
    \A t \in DOMAIN tasks :
        LET j == tasks[t].run_id
            items == DocEbvs(tasks[t].doc)
            rels == DocReliabilities(tasks[t].doc)
        IN  (runs[j].status = "completed" /\ items # << >>) =>
              /\ \A k \in DOMAIN items :
                    \E r \in RowsOf(j) :
                        /\ CopiesIn(r, results) = 1
                        /\ r.animal_id = IntOf(items[k][1])
                        /\ r.ebv = items[k][2]
                        /\ items[k][1] \in DOMAIN rels =>
                              r.reliability = rels[items[k][1]]
              /\ \A r \in RowsOf(j) :
                    \E k \in DOMAIN items : r.animal_id = IntOf(items[k][1])
              /\ Cardinality(RowsOf(j)) = Len(items)

C12_Witness ==
    \E t \in DOMAIN tasks :
        /\ runs[tasks[t].run_id].status = "completed"
        /\ tasks[t].doc = "docA"
        /\ \E r \in RowsOf(tasks[t].run_id) :
              r.animal_id = 101 /\ r.ebv = 245 /\ r.reliability = 75

\* number of result rows of job j, copies counted
RowCount(j) == BagCardinality([r \in RowsOf(j) |-> CopiesIn(r, results)])

\* C13 (as claimed): a completed job read back has its completion
\* timestamp, a computed duration, and subject and record counts equal to
\* the number of subjects evaluated, i.e. of result rows written.
C13_CompletionBookkeeping ==
    \A j \in DOMAIN runs :
        LET job == get_breeding_value_run(j) IN
        job.status = "completed" =>
            /\ job.completed_at
            /\ job.n_animals = RowCount(j)
            /\ job.n_records = RowCount(j)
            /\ job.computation_time_seconds # NULL

\* C14: for each job the events are ordered: while its invocation of the
\* bridge is in progress, or has ended and is not yet handled by the
\* executor, the committed status is running (running was committed before
\* the invocation and neither completed nor failed before its end); and an
\* invocation the executor is done with was never made for a pending job.
C14_EventOrder ==
    \A t \in DOMAIN tasks :
        LET st == runs[tasks[t].run_id].status IN
        /\ calls[t].phase \in {"entered", "waiting", "exited", "returned", "raised"}
              => st = "running"
        /\ calls[t].phase = "consumed" => st # "pending"
        /\ Terminal(st) => calls[t].phase \in {"idle", "consumed"}

C14_Witness ==
    \E s, t \in DOMAIN tasks :
        /\ calls[s].phase = "waiting" /\ runs[tasks[s].run_id].status = "running"
        /\ calls[t].phase = "consumed" /\ calls[t].spawned
        /\ runs[tasks[t].run_id].status = "completed"

\* the result rows of job j in table, with their copies
RowsIn(table, j) ==
    [r \in {x \in BagToSet(table) : x.run_id = j} |-> CopiesIn(r, table)]

JobTouched(j) == runs'[j] # runs[j] \/ RowsIn(results', j) # RowsIn(results, j)

\* C15: a step that changes the row or the result rows of a job is a step of
\* the background task of that job and changes no other job; a submission
\* changes no existing job.
C15_OnlyOwnExecutorWrites ==
    [][\A j \in DOMAIN runs :
          /\ j \in DOMAIN runs'
          /\ JobTouched(j) =>
                /\ \E t \in DOMAIN tasks :
                      tasks[t].run_id = j /\ tasks'[t].pc # tasks[t].pc
                /\ \A t \in DOMAIN tasks :
                      tasks[t].run_id # j => tasks'[t] = tasks[t]
                /\ \A k \in DOMAIN runs \ {j} : ~JobTouched(k)
                /\ Len(runs') = Len(runs)]_vars

C15_Witness ==
    \E j, k \in DOMAIN runs :
        /\ runs[j].status = "completed" /\ RowsOf(j) # {}
        /\ runs[k].status = "completed" /\ RowsOf(k) # {}
        /\ j # k

\* C16: every result row names an existing job, no job row disappears, and
\* a result row once written stays in the table unchanged (every row of a
\* state is there, in at least as many copies, in the next state).
C16_RowsReferToJobsAndStay ==
    [][/\ \A r \in BagToSet(results) : r.run_id \in DOMAIN runs
       /\ \A r \in BagToSet(results') : r.run_id \in DOMAIN runs'
       /\ DOMAIN runs \subseteq DOMAIN runs'
       /\ \A r \in BagToSet(results) :
             CopiesIn(r, results') >= CopiesIn(r, results)]_vars

C16_Witness ==
    \E r, q \in BagToSet(results) :
        /\ r.run_id # q.run_id
        /\ r.run_id \in DOMAIN runs /\ q.run_id \in DOMAIN runs
        /\ runs[q.run_id].status = "completed"

\* C17 (as claimed): no two result rows share job id and subject id.
C17_OneRowPerSubject ==
    \A r, q \in BagToSet(results) :
        (r.run_id = q.run_id /\ r.animal_id = q.animal_id) =>
            r = q /\ CopiesIn(r, results) = 1

\* C18: a job completed from an output whose per-subject map is empty or
\* absent has a row for every subject of the phenotype sample handed to the
\* engine and for no other subject, one row per entry of the sample.
C18_FallbackCoversSample ==
    \A t \in DOMAIN tasks :
        LET j == tasks[t].run_id IN
        (runs[j].status = "completed" /\ DocEbvs(tasks[t].doc) = << >>) =>
            /\ {r.animal_id : r \in RowsOf(j)}
                  = {tasks[t].sample[k] : k \in DOMAIN tasks[t].sample}
            /\ RowCount(j) = Len(tasks[t].sample)

C18_Witness ==
    \E t \in DOMAIN tasks :
        /\ runs[tasks[t].run_id].status = "completed"
        /\ tasks[t].doc = "docEmpty"
        /\ tasks[t].sample = <<101, 102>>
        /\ {r.animal_id : r \in RowsOf(tasks[t].run_id)} = {101, 102}

\* what the stored row says about being a placeholder: the value of a
\* provisional flag, FALSE when the row has no such field
Provisional(r) == IF "provisional" \in DOMAIN r THEN r.provisional ELSE FALSE

\* C19 (as claimed): the stored rows carry a flag that is set exactly on the
\* rows the fallback synthesized.
C19_PlaceholdersFlagged ==
    \A t \in DOMAIN tasks :
        \A r \in RowsOf(tasks[t].run_id) :
            Provisional(r) <=> (DocEbvs(tasks[t].doc) = << >>)

\* output documents of the expected shape: an object whose ebvs, when
\* present, is a map from subject ids to numbers
ExpectedShape == {"docA", "docEmpty"}

\* C20 (as claimed): a job whose engine exited with code 0 and left no
\* output document, or one that does not parse, or one that is not of the
\* expected shape, ends failed and never completed.
C20_MalformedOutputFails ==
    \A t \in DOMAIN tasks :
        LET st == runs[tasks[t].run_id].status IN
        /\ (tasks[t].pc = "returned"
              /\ calls[t].error \in {"FileNotFound", "JSONDecodeError"})
             => st = "failed"
        /\ (tasks[t].pc = "returned"
              /\ tasks[t].doc \notin ExpectedShape \cup {"none"})
             => st = "failed"

\* C21 (as claimed): the engine process of a job runs with the thread count
\* of the job's submission, and with the accelerator variable set exactly
\* when the submission asked for the accelerator.
C21_EnvFollowsRequest ==
    \A t \in DOMAIN tasks :
        calls[t].spawned =>
            /\ calls[t].env.JULIA_NUM_THREADS = RunCreate(tasks[t].method).num_threads
            /\ calls[t].env.CUDA_VISIBLE_DEVICES = tasks[t].use_gpu

\* the methods of the breeding value core that are to have a routine each
EvaluationMethods ==
    {"BLUP", "GBLUP", "ssGBLUP", "BayesA", "BayesB", "BayesC", "BayesR"}

\* C22 (as claimed): the routine entered for a job of one of these methods
\* is not the routine another of these methods is dispatched to.
C22_DedicatedRoutine ==
    \A t \in DOMAIN tasks :
        (tasks[t].method \in EvaluationMethods /\ calls[t].phase # "idle") =>
            \A m \in EvaluationMethods \ {tasks[t].method} :
                calls[t].script # Routine(m)

\* C23: the three read operations (get a job, list a job's results, list
\* jobs) leave every job and every result row as they were, and a get of an
\* id no job has is answered with not found.
C23_ReadsChangeNothing ==
    [][reader' # reader =>
         /\ UNCHANGED <<runs, results>>
         /\ (reader'.op = "get" /\ reader'.run_id \notin DOMAIN runs)
               => reader'.response = [status_code |-> 404]]_vars

\* a get of an unknown id was answered 404 beside a database holding rows
C23_Witness ==
    /\ reader.op = "get"
    /\ reader.run_id \notin DOMAIN runs
    /\ reader.response.status_code = 404
    /\ results # EmptyBag

\* C24 (as claimed): a listing of a job's results holds only rows of that
\* job, at most limit of them, and, whenever a minimum reliability was given
\* (zero included), only rows whose reliability is at least the minimum.
C24_ResultsFiltered ==
    reader.op = "results" =>
        /\ Len(reader.response) <= reader.limit
        /\ \A k \in DOMAIN reader.response :
              /\ reader.response[k].run_id = reader.run_id
              /\ reader.min_reliability # << >>
                    => reader.response[k].reliability >= reader.min_reliability[1]

\* calls for key k that returned True at a time in (a - WindowSeconds, a]
GrantedInWindow(k, a) ==
    LET from == IF a - WindowSeconds + 1 > 0 THEN a - WindowSeconds + 1 ELSE 0
        Sum[t \in from - 1 .. a] ==
            IF t < from THEN 0 ELSE limiter.granted[k][t] + Sum[t - 1]
    IN  Sum[a]

\* C25: for every key, is_allowed returns True for at most max_requests calls
\* inside any one window, and a call is refused only when max_requests calls
\* for its own key were allowed in the window that ends at the call, whatever
\* was allowed for other keys.
C25_AtMostMaxPerWindow ==
    /\ \A k \in Keys, a \in 0 .. MaxClock : GrantedInWindow(k, a) <= MaxRequests
    /\ (limiter.last.key \in Keys /\ ~limiter.last.allowed)
          => GrantedInWindow(limiter.last.key, limiter.last.at) = MaxRequests

\* a call for one key was refused while the other key, also called inside
\* the window, is still below its limit
C25_Witness ==
    /\ limiter.last.key = "10.0.0.1"
    /\ ~limiter.last.allowed
    /\ GrantedInWindow("10.0.0.2", limiter.last.at) = 1
    /\ limiter.last.at > WindowSeconds

\* C26: delete_role and update_role on a system role, and create_role with
\* a code the table already has, raise and leave the role table and the
\* permission cache as they were.
C26_ProtectedCallsRaise ==
    [][ LET call == rbac'.last
            protected ==
              \/ /\ call.op \in {"delete_role", "update_role"}
                 /\ call.code \in DOMAIN rbac.table
                 /\ rbac.table[call.code].is_system
              \/ /\ call.op = "create_role"
                 /\ call.code \in DOMAIN rbac.table
        IN  protected =>
              /\ call.raised # 0
              /\ rbac'.table = rbac.table
              /\ rbac'.cache = rbac.cache ]_vars

\* a refused call on a system role, made after the table had been changed
\* by a successful create_role
C26_Witness ==
    /\ rbac.last.op \in {"delete_role", "update_role"}
    /\ rbac.last.code \in {"admin", "viewer"}
    /\ rbac.last.raised = 403
    /\ "auditor" \in DOMAIN rbac.table
    /\ rbac.table.admin = ROLE_PERMISSIONS.admin

\* C29 (as claimed): the cache has exactly the roles of the table, each with
\* the set of the permissions the table lists for it, so has_permission
\* agrees with list_roles.
C29_CacheMatchesTable ==
    /\ DOMAIN rbac.cache = DOMAIN rbac.table
    /\ \A r \in RoleCodes, p \in {"farm:view", "breeding:run"} :
          has_permission(r, p) <=>
            (r \in DOMAIN list_roles /\ p \in ToSet(list_roles[r]))

\* after delete(id, soft=True) returned True the record is not reported
SoftDeleteHides ==
    (store.last.op = "soft_delete" /\ store.last.result) =>
        /\ get(store.last.id) = NoRow
        /\ ~exists(store.last.id)
        /\ \A k \in DOMAIN get_multi : get_multi[k] # store.last.id
        /\ count = Cardinality({i \in DOMAIN store.rows \ {store.last.id} :
                                   ~store.rows[i].is_deleted})

\* the columns of a row beside the time of its last UPDATE
Business(row) ==
    [id |-> row.id, name |-> row.name,
     is_deleted |-> row.is_deleted, deleted_at |-> row.deleted_at,
     deleted_by |-> row.deleted_by]

\* C27 (amended): after delete(id, soft=True) returned True, get(id) is
\* None and exists, get_multi and count do not report the record; after a
\* following restore(id), get(id) returns the record with every column
\* other than updated_at as it was before the delete.
C27_SoftDeleteRestore ==
    /\ SoftDeleteHides
    /\ (store.last.op = "restore" /\ store.last.before # NoRow) =>
          /\ get(store.last.id) # NoRow
          /\ Business(get(store.last.id)) = Business(store.last.before)

\* a record soft deleted and restored at a later time is visible again
C27_Witness ==
    /\ store.last.op = "restore"
    /\ store.last.before # NoRow
    /\ get(store.last.id).updated_at > store.last.before.updated_at
    /\ count = MaxRecords

\* C27 (as claimed): the same, and the restored record has all its columns
\* as they were before the delete.
C27_RestoreGivesSameRecord ==
    /\ SoftDeleteHides
    /\ (store.last.op = "restore" /\ store.last.before # NoRow) =>
          get(store.last.id) = store.last.before

\* C30: after any sequence of assign_to_barn and transfer calls every animal
\* has at most one location record with exit_date unset.
C30_OneOpenLocation ==
    \A a \in Animals : Cardinality(OpenLocations(a)) <= 1

\* an animal was assigned and then moved twice: its first two records are
\* closed and the third is its open one
C30_Witness ==
    /\ Len(farm.locations) = 3
    /\ \A k \in 1 .. 3 : farm.locations[k].animal_id = 1
    /\ farm.locations[1].exit_date # NULL
    /\ farm.locations[2].exit_date # NULL
    /\ farm.last.op = "transfer"
    /\ OpenLocations(1) = {3}

====
